---- MODULE Spec2Model ----
(***************************************************************************)
(* RailReach service worker (src/sw.js): the cache lifecycle               *)
(* install -> activate -> fetch interception, over the host's cache        *)
(* storage.  Every promise callback of the three listeners is one action.  *)
(* Spec is the worker with the host's lifecycle; SpecHost adds the host     *)
(* clearing the cache storage.  The page's map helpers                     *)
(* (src/assets/js/map-core.js) are the second part: SpecColor calls         *)
(* getColor, SpecMap draws markers on the page's map.                       *)
(***************************************************************************)
EXTENDS Integers, Sequences, FiniteSets, TLC

\* ---------------------------------------------------------------- bounds
MaxWorkers == 2      \* worker instances of this script that get installed
MaxFetch == 2        \* fetch events intercepted (they may be in flight together)
MaxMins == 90        \* largest whole number of minutes passed to getColor
MaxMarkers == 2      \* markers drawn on the page's map

Workers == 1..MaxWorkers
Events == 1..MaxFetch

\* ------------------------------------------------------- program constants
CACHE_NAME == "railreach-v1"

PRECACHE ==
  {"/", "/assets/css/shared.css", "/assets/js/stations-data.js",
   "/assets/js/map-core.js", "/favicon.svg", "/manifest.json"}

\* the root path the document branch falls back to
ROOT == "/"

\* the host name fragment the fetch listener looks for, as labels
TILE_HOST == <<"tile", "openstreetmap", "org">>

\* ------------------------------------------------------------ environment
\* caches left behind by earlier versions of the worker, oldest first
OtherNames == <<"railreach-v0", "railreach-tiles">>

TileUrl == "https://a.tile.openstreetmap.org/1/2/3.png"

\* The requests the pages make, as <<url, destination>>: a precached file
\* opened as a page (the root page, precached too, is answered the same way),
\* a page that is not precached, a precached file and another file loaded by
\* a page, a map tile drawn by a page, and a map tile opened as a page.
Requests ==
  {<<"/manifest.json", "document">>,
   <<"/journeys.html", "document">>, <<"/manifest.json", "manifest">>,
   <<"/assets/img/logo.png", "image">>, <<TileUrl, "image">>,
   <<TileUrl, "document">>}

Urls == PRECACHE \cup {q[1] : q \in Requests}

\* new URL(e.request.url).hostname, as a sequence of labels
Hostname(url) ==
  IF url = TileUrl THEN <<"a", "tile", "openstreetmap", "org">>
  ELSE <<"railreach", "example">>

\* Response bodies, as <<origin, id, url>>: the content of url as precached by
\* install, as fetched from the network by fetch event id (every such
\* response is an object of its own), or as left in a cache by an earlier
\* version.
None == <<"none", 0, "">>          \* undefined: no cached entry
Failure == <<"error", 0, "">>      \* a network error delivered to the page
OldBody(u) == <<"old", 0, u>>
InstallBody(u) == <<"install", 0, u>>
FetchBody(r, u) == <<"fetch", r, u>>

EmptyCache == [u \in Urls |-> None]

AllNames == {CACHE_NAME} \cup {OtherNames[i] : i \in 1..Len(OtherNames)}

VARIABLES
  cacheOrder,   \* names of the existing caches, in creation order
  current,      \* current[url]: the entry of the CACHE_NAME cache, or None
  wstate,       \* lifecycle state of each worker instance
  skipFlag,     \* skip-waiting flag of each worker
  instPc,       \* progress of the install listener's promise chain
  keysAtStart,  \* keys of the CACHE_NAME cache when install started
  actPc,        \* progress of the activate listener's promise chain
  toDelete,     \* caches.delete calls of activate still outstanding
  purged,       \* results of activate: the caches its deletes have removed
  claimPc,      \* progress of clients.claim()
  controlled,   \* open pages are controlled by this registration
  ev,           \* the fetch events
  mapView,      \* the page's map: its centre, zoom and base tile layer
  layers,       \* the markers on the map, in the order they were added
  call,         \* the last call of a map helper, with its arguments
  returned      \* what that call returned

\* the state of the page that uses the map helpers
mapVars == <<mapView, layers, call, returned>>

\* the state of the worker and of the host's cache storage
swVars == <<cacheOrder, current, wstate, skipFlag, instPc, keysAtStart, actPc,
            toDelete, purged, claimPc, controlled, ev>>

vars == <<cacheOrder, current, wstate, skipFlag, instPc, keysAtStart, actPc,
          toDelete, purged, claimPc, controlled, ev, mapVars>>

\* ------------------------------------------------------- cache storage API
Range(s) == {s[i] : i \in 1..Len(s)}

Exists(name) == name \in Range(cacheOrder)

\* what the earlier versions left in each of their caches
OldEntries == [u \in Urls |-> IF u \in {ROOT, TileUrl} THEN OldBody(u) ELSE None]

\* the entries of a cache; nothing writes to the caches of earlier versions
Entries(name) ==
  IF ~Exists(name) THEN EmptyCache
  ELSE IF name = CACHE_NAME THEN current
  ELSE OldEntries

Keys(name) == {u \in Urls : Entries(name)[u] # None}

\* caches.open(name): creates the cache when it is absent
OpenOrder(order, name) ==
  IF name \in Range(order) THEN order ELSE Append(order, name)

RECURSIVE Without(_, _)
Without(order, name) ==
  IF order = <<>> THEN <<>>
  ELSE IF Head(order) = name THEN Without(Tail(order), name)
  ELSE <<Head(order)>> \o Without(Tail(order), name)

\* caches.match(request): the first hit over all caches, in creation order
RECURSIVE MatchIn(_, _)
MatchIn(order, url) ==
  IF order = <<>> THEN None
  ELSE IF Entries(Head(order))[url] # None THEN Entries(Head(order))[url]
  ELSE MatchIn(Tail(order), url)

CachesMatch(url) == MatchIn(cacheOrder, url)

\* a || b on responses
OrElse(a, b) == IF a # None THEN a ELSE b

\* a precache that replaces what the cache held
AddAllReplacing(entries) ==
  [u \in Urls |-> IF u \in PRECACHE THEN InstallBody(u) ELSE None]

\* c.addAll(PRECACHE): every URL is fetched, then all are stored together
AddAll(entries) ==
  [u \in Urls |-> IF u \in PRECACHE THEN InstallBody(u) ELSE entries[u]]

\* a put that stores nothing
PutNothing(entries, url, body) == entries

\* c.put(request, clone)
Put(entries, url, body) == [entries EXCEPT ![url] = body]

\* an activate without the filter: every cache is deleted
DeleteSetAll(keys) == keys

\* a filter that lets the newest of the other caches live
DeleteSetButLast(keys) ==
  {k \in keys : k # CACHE_NAME /\ k # OtherNames[Len(OtherNames)]}

\* keys.filter(k => k !== CACHE_NAME)
DeleteSet(keys) == {k \in keys : k # CACHE_NAME}

\* ------------------------------------------------------------ map helpers
\* A number of minutes is kept in thousandths, so that 29.999 and 30 are
\* different inputs: Minutes(29, 999) is 29.999.
Thousandths == 1000
Minutes(whole, frac) == whole * Thousandths + frac

\* the fractions tried with every whole number of minutes
Fractions == {0, 500, 999}

\* the travel times passed to getColor
Mins == {Minutes(w, f) : w \in 0..MaxMins, f \in Fractions}

\* the travel times of the stations drawn on the map
StationMins ==
  {Minutes(0, 0), Minutes(29, 999), Minutes(30, 0), Minutes(59, 999),
   Minutes(60, 0), Minutes(75, 0)}

\* the fill colours of map-core.js
GREEN == "#22c55e"
AMBER == "#f59e0b"
RED == "#ef4444"
PURPLE == "#7c3aed"
WHITE == "#fff"

\* coordinates <<lat, lng>>, zoom levels and popup texts the pages pass
Coords == {<<51, 0>>, <<53, -2>>}
Zooms == {6, 10}
Popups == {"<b>Reading</b>", "<b>Paddington</b>"}

NoView == [made |-> FALSE, center |-> <<0, 0>>, zoom |-> 0, tiles |-> FALSE]
NoCall == [fn |-> "none", latlng |-> <<0, 0>>, mins |-> 0, popup |-> "", zoom |-> 0]
NoReturn == [kind |-> "none", id |-> 0, color |-> ""]

\* ------------------------------------------------------------------- Init
NoEvent == [pc |-> "none", url |-> ROOT, dest |-> "document",
            hadEntry |-> FALSE, neterr |-> FALSE, resp |-> None, net |-> 0]

Init ==
  /\ \E n \in 0..Len(OtherNames) : cacheOrder = SubSeq(OtherNames, 1, n)
  /\ current = EmptyCache
  /\ wstate = [w \in Workers |-> "parsed"]
  /\ skipFlag = [w \in Workers |-> FALSE]
  /\ instPc = [w \in Workers |-> "idle"]
  /\ keysAtStart = [w \in Workers |-> {}]
  /\ actPc = [w \in Workers |-> "idle"]
  /\ toDelete = [w \in Workers |-> {}]
  /\ purged = [w \in Workers |-> {}]
  /\ claimPc = [w \in Workers |-> "idle"]
  /\ controlled = FALSE
  /\ ev = [r \in Events |-> NoEvent]
  /\ mapView = NoView
  /\ layers = <<>>
  /\ call = NoCall
  /\ returned = NoReturn

\* ---------------------------------------------------------------- install
Active(w) == wstate[w] \in {"activating", "activated"}

\* position of an event whose respondWith promise has not settled yet
InProgress(r) ==
  ev[r].pc \in {"tmatch", "tfetch", "dfetch", "dmatch", "droot", "amatch", "afetch"}

\* position of an event whose response is out but whose cache write is not
PutPending(r) == ev[r].pc \in {"topen", "tput"}

\* A worker that becomes redundant is stopped: its flag and whatever its
\* listeners still had outstanding are gone with it.
Discard(gone) ==
  /\ skipFlag' = [v \in Workers |-> skipFlag[v] /\ v \notin gone]
  /\ keysAtStart' = [v \in Workers |-> IF v \in gone THEN {} ELSE keysAtStart[v]]
  /\ actPc' = [v \in Workers |-> IF v \in gone THEN "idle" ELSE actPc[v]]
  /\ claimPc' = [v \in Workers |-> IF v \in gone THEN "idle" ELSE claimPc[v]]
  /\ purged' = [v \in Workers |-> IF v \in gone THEN {} ELSE purged[v]]

\* an install listener that does not call skipWaiting
InstallListenerWaiting(w) ==
  /\ wstate[w] = "parsed"
  /\ w > 1 => wstate[w - 1] \notin {"parsed", "installing"}
  /\ wstate' = [wstate EXCEPT ![w] = "installing"]
  /\ instPc' = [instPc EXCEPT ![w] = "open"]
  /\ keysAtStart' = [keysAtStart EXCEPT ![w] = Keys(CACHE_NAME)]
  /\ UNCHANGED <<mapVars, cacheOrder, current, skipFlag, actPc, toDelete, purged,
                 claimPc, controlled, ev>>

\* The install event of a new worker instance, and the listener's synchronous
\* part: caches.open is called, its promise handed to waitUntil, and
\* skipWaiting is called.
InstallListener(w) ==
  /\ wstate[w] = "parsed"
  /\ w > 1 => wstate[w - 1] \notin {"parsed", "installing"}
  /\ wstate' = [wstate EXCEPT ![w] = "installing"]
  /\ instPc' = [instPc EXCEPT ![w] = "open"]
  /\ skipFlag' = [skipFlag EXCEPT ![w] = TRUE]
  /\ keysAtStart' = [keysAtStart EXCEPT ![w] = Keys(CACHE_NAME)]
  /\ UNCHANGED <<mapVars, cacheOrder, current, actPc, toDelete, purged, claimPc, controlled, ev>>

\* caches.open(CACHE_NAME) resolves
InstallOpen(w) ==
  /\ instPc[w] = "open"
  /\ cacheOrder' = OpenOrder(cacheOrder, CACHE_NAME)
  /\ instPc' = [instPc EXCEPT ![w] = "addAll"]
  /\ UNCHANGED <<mapVars, current, wstate, skipFlag, keysAtStart, actPc, toDelete, purged,
                 claimPc, controlled, ev>>

\* c.addAll(PRECACHE) resolves: the waitUntil promise is fulfilled and the
\* worker is installed; a worker that was waiting is discarded.
InstallAddAllOk(w) ==
  /\ instPc[w] = "addAll"
  /\ current' = IF Exists(CACHE_NAME) THEN AddAll(current) ELSE current
  /\ instPc' = [instPc EXCEPT ![w] = "done"]
  /\ wstate' = [v \in Workers |->
                  IF v = w THEN "installed"
                  ELSE IF wstate[v] = "installed" THEN "redundant"
                  ELSE wstate[v]]
  /\ Discard({v \in Workers : v # w /\ wstate[v] = "installed"})
  /\ UNCHANGED <<mapVars, cacheOrder, toDelete, controlled, ev>>

\* one of the precache fetches fails: addAll rejects and stores nothing, the
\* waitUntil promise is rejected and the worker is discarded.
InstallAddAllFail(w) ==
  /\ instPc[w] = "addAll"
  /\ instPc' = [instPc EXCEPT ![w] = "failed"]
  /\ wstate' = [wstate EXCEPT ![w] = "redundant"]
  /\ Discard({w})
  /\ UNCHANGED <<mapVars, cacheOrder, current, toDelete, controlled, ev>>

\* --------------------------------------------------------------- activate
\* The activate event, and the listener's synchronous part: caches.keys is
\* called, its chain handed to waitUntil, and clients.claim is called.  The
\* worker it replaces has answered its requests and is stopped.
ActivateListener(w) ==
  /\ wstate[w] = "installed"
  /\ skipFlag[w] \/ ~controlled \/ \A v \in Workers : ~Active(v)
  /\ \A v \in Workers : wstate[v] # "activating"
  /\ \A r \in Events : ~InProgress(r) /\ ~PutPending(r)
  /\ wstate' = [v \in Workers |->
                  IF v = w THEN "activating"
                  ELSE IF wstate[v] = "activated" THEN "redundant"
                  ELSE wstate[v]]
  /\ LET gone == {v \in Workers : v # w /\ wstate[v] = "activated"} IN
       /\ actPc' = [v \in Workers |->
                      IF v = w THEN "keys" ELSE IF v \in gone THEN "idle" ELSE actPc[v]]
       /\ claimPc' = [v \in Workers |->
                        IF v = w THEN "pending" ELSE IF v \in gone THEN "idle"
                        ELSE claimPc[v]]
       /\ skipFlag' = [v \in Workers |-> skipFlag[v] /\ v \notin gone]
       /\ keysAtStart' = [v \in Workers |-> IF v \in gone THEN {} ELSE keysAtStart[v]]
       /\ purged' = [v \in Workers |-> IF v \in gone THEN {} ELSE purged[v]]
  /\ UNCHANGED <<mapVars, cacheOrder, current, instPc, toDelete, controlled, ev>>

\* caches.keys() resolves: one caches.delete per name that passes the filter
ActivateKeys(w) ==
  /\ actPc[w] = "keys"
  /\ toDelete' = [toDelete EXCEPT ![w] = DeleteSet(Range(cacheOrder))]
  /\ actPc' = [actPc EXCEPT ![w] = "deleting"]
  /\ UNCHANGED <<mapVars, cacheOrder, current, wstate, skipFlag, instPc, keysAtStart,
                 purged, claimPc, controlled, ev>>

\* one caches.delete(k) resolves
ActivateDelete(w, k) ==
  /\ actPc[w] = "deleting"
  /\ k \in toDelete[w]
  /\ cacheOrder' = Without(cacheOrder, k)
  /\ current' = IF k = CACHE_NAME THEN EmptyCache ELSE current
  /\ toDelete' = [toDelete EXCEPT ![w] = @ \ {k}]
  /\ purged' = [purged EXCEPT ![w] = @ \cup {k}]
  /\ UNCHANGED <<mapVars, wstate, skipFlag, instPc, keysAtStart, actPc, claimPc,
                 controlled, ev>>

\* Promise.all resolves with the results of the deletes: the waitUntil
\* promise is fulfilled
ActivateSettle(w) ==
  /\ actPc[w] = "deleting"
  /\ toDelete[w] = {}
  /\ actPc' = [actPc EXCEPT ![w] = "done"]
  /\ UNCHANGED <<mapVars, cacheOrder, current, wstate, skipFlag, instPc, keysAtStart,
                 toDelete, purged, claimPc, controlled, ev>>

\* the activate event is over: the results are dropped, the worker is
\* activated and fetch events are dispatched to it
Activated(w) ==
  /\ actPc[w] = "done"
  /\ wstate[w] = "activating"
  /\ wstate' = [wstate EXCEPT ![w] = "activated"]
  /\ purged' = [purged EXCEPT ![w] = {}]
  /\ UNCHANGED <<mapVars, cacheOrder, current, skipFlag, instPc, keysAtStart, actPc,
                 toDelete, claimPc, controlled, ev>>

\* self.clients.claim() takes effect: the open pages use this worker
Claim(w) ==
  /\ claimPc[w] = "pending"
  /\ Active(w)
  /\ claimPc' = [claimPc EXCEPT ![w] = "claimed"]
  /\ controlled' = TRUE
  /\ UNCHANGED <<mapVars, cacheOrder, current, wstate, skipFlag, instPc, keysAtStart,
                 actPc, toDelete, purged, ev>>

\* ------------------------------------------------------------------ fetch
\* hostname.includes(TILE_HOST): the fragment occurs somewhere in the name
Includes(host, part) ==
  \E i \in 0..(Len(host) - Len(part)) :
    SubSeq(host, i + 1, i + Len(part)) = part

IsTileHost(url) == Includes(Hostname(url), TILE_HOST)

\* e.request.destination === 'document'
IsDocument(dest) == dest = "document"

\* a listener that treats every file a page loads as a tile
BranchCacheAll(url, dest) ==
  IF IsDocument(dest) /\ ~IsTileHost(url) THEN "document" ELSE "tile"

\* a listener that tests the request type before the host
BranchDocumentFirst(url, dest) ==
  IF IsDocument(dest) THEN "document"
  ELSE IF IsTileHost(url) THEN "tile"
  ELSE "asset"

\* the branch of the fetch listener that answers a request
Branch(url, dest) ==
  IF IsTileHost(url) THEN "tile"
  ELSE IF IsDocument(dest) THEN "document"
  ELSE "asset"

\* the response (or failure) reaches the page
Respond(r, body, pc) ==
  /\ ev' = [ev EXCEPT ![r].resp = body, ![r].pc = pc]
  /\ controlled' = (controlled \/ (ev[r].dest = "document" /\ body # Failure))

\* A fetch event is dispatched to the activated worker, and the listener's
\* synchronous part runs: the branch is chosen and its first asynchronous
\* call is made (caches.match, or fetch in the document branch).
FetchListener(r, url, dest) ==
  /\ ev[r].pc = "none"
  /\ r > 1 => ev[r - 1].pc # "none"
  /\ \E w \in Workers : wstate[w] = "activated"
  /\ <<url, dest>> \in Requests
  /\ dest = "document" \/ controlled
  /\ LET b == Branch(url, dest) IN
       ev' = [ev EXCEPT ![r] =
                [pc |-> IF b = "tile" THEN "tmatch"
                        ELSE IF b = "document" THEN "dfetch" ELSE "amatch",
                 url |-> url, dest |-> dest,
                 hadEntry |-> CachesMatch(url) # None, neterr |-> FALSE,
                 resp |-> None,
                 net |-> IF b = "document" THEN 1 ELSE 0]]
  /\ UNCHANGED <<mapVars, cacheOrder, current, wstate, skipFlag, instPc, keysAtStart,
                 actPc, toDelete, purged, claimPc, controlled>>

\* what a promise chain goes on with: the network, or the root lookup
NetFetch == <<"next", 0, "fetch">>
RootLookup == <<"next", 0, "match">>

\* a tile branch that asks the network first
TileNetworkFirst(cached, next) == next

\* tile branch: cached || fetch(e.request).then(...)
TileFirst(cached, next) == OrElse(cached, next)

\* a document branch that prefers the root page to the exact entry
DocRootFirst(cached, next) == next

\* a document branch without the root page fallback
DocNoRoot(cached, next) == cached

\* document branch: r || caches.match('/')
DocFallback(cached, next) == OrElse(cached, next)

\* asset branch: cached || fetch(e.request)
AssetFirst(cached, next) == OrElse(cached, next)

\* a respondWith that answers undefined with a made-up offline page
Offline == <<"made", 0, ROOT>>
AsResponseOffline(v) == OrElse(v, Offline)

\* e.respondWith(promise): a promise that resolves with undefined gives the
\* page a network error
AsResponse(v) == OrElse(v, Failure)

\* tile branch: caches.match(e.request) resolves
TileMatch(r) ==
  /\ ev[r].pc = "tmatch"
  /\ LET v == TileFirst(CachesMatch(ev[r].url), NetFetch) IN
       IF v = NetFetch
         THEN /\ ev' = [ev EXCEPT ![r].pc = "tfetch", ![r].net = @ + 1]
              /\ UNCHANGED controlled
         ELSE Respond(r, AsResponse(v), "done")
  /\ UNCHANGED <<mapVars, cacheOrder, current, wstate, skipFlag, instPc, keysAtStart,
                 actPc, toDelete, purged, claimPc>>

\* a tile branch that hands every request the response of the first request
\* for that URL
TileFetchOkShared(r) ==
  /\ ev[r].pc = "tfetch"
  /\ LET first == CHOOSE q \in Events :
                    /\ ev[q].url = ev[r].url /\ ev[q].pc # "none"
                    /\ \A p \in Events :
                         ev[p].url = ev[r].url /\ ev[p].pc # "none" => q <= p
     IN Respond(r, FetchBody(first, ev[r].url), "topen")
  /\ UNCHANGED <<mapVars, cacheOrder, current, wstate, skipFlag, instPc, keysAtStart,
                 actPc, toDelete, purged, claimPc>>

\* tile branch: fetch resolves; the clone is kept for the cache, caches.open
\* is called and the response is returned to the page
TileFetchOk(r) ==
  /\ ev[r].pc = "tfetch"
  /\ Respond(r, FetchBody(r, ev[r].url), "topen")
  /\ UNCHANGED <<mapVars, cacheOrder, current, wstate, skipFlag, instPc, keysAtStart,
                 actPc, toDelete, purged, claimPc>>

\* a tile branch that catches the rejection and answers with the root page
TileFetchFailCaught(r) ==
  /\ ev[r].pc = "tfetch"
  /\ ev' = [ev EXCEPT ![r].resp = AsResponse(CachesMatch(ROOT)),
                      ![r].neterr = TRUE, ![r].pc = "done"]
  /\ UNCHANGED <<mapVars, cacheOrder, current, wstate, skipFlag, instPc, keysAtStart,
                 actPc, toDelete, purged, claimPc, controlled>>

\* tile branch: fetch rejects; nothing catches it
TileFetchFail(r) ==
  /\ ev[r].pc = "tfetch"
  /\ ev' = [ev EXCEPT ![r].resp = Failure, ![r].neterr = TRUE, ![r].pc = "done"]
  /\ UNCHANGED <<mapVars, cacheOrder, current, wstate, skipFlag, instPc, keysAtStart,
                 actPc, toDelete, purged, claimPc, controlled>>

\* tile branch: caches.open(CACHE_NAME) resolves
TileOpen(r) ==
  /\ ev[r].pc = "topen"
  /\ cacheOrder' = OpenOrder(cacheOrder, CACHE_NAME)
  /\ ev' = [ev EXCEPT ![r].pc = "tput"]
  /\ UNCHANGED <<mapVars, current, wstate, skipFlag, instPc, keysAtStart, actPc,
                 toDelete, purged, claimPc, controlled>>

\* tile branch: c.put(e.request, clone) resolves
TilePut(r) ==
  /\ ev[r].pc = "tput"
  /\ current' = IF Exists(CACHE_NAME)
                  THEN Put(current, ev[r].url, FetchBody(r, ev[r].url))
                  ELSE current
  /\ ev' = [ev EXCEPT ![r].pc = "done"]
  /\ UNCHANGED <<mapVars, cacheOrder, wstate, skipFlag, instPc, keysAtStart, actPc,
                 toDelete, purged, claimPc, controlled>>

\* The cache write of the tile branch is handed neither to respondWith nor to
\* waitUntil: once every response is out the host may stop the idle worker,
\* and the writes still outstanding are lost.
StopIdleWorker ==
  /\ \E r \in Events : PutPending(r)
  /\ \A r \in Events : ~InProgress(r)
  /\ ev' = [r \in Events |->
              IF PutPending(r) THEN [ev[r] EXCEPT !.pc = "dropped"] ELSE ev[r]]
  /\ UNCHANGED <<mapVars, cacheOrder, current, wstate, skipFlag, instPc, keysAtStart,
                 actPc, toDelete, purged, claimPc, controlled>>

\* a document branch that prefers a cached entry to the network response
DocFetchOkCachePreferred(r) ==
  /\ ev[r].pc = "dfetch"
  /\ Respond(r, OrElse(CachesMatch(ev[r].url), FetchBody(r, ev[r].url)), "done")
  /\ UNCHANGED <<mapVars, cacheOrder, current, wstate, skipFlag, instPc, keysAtStart,
                 actPc, toDelete, purged, claimPc>>

\* document branch: fetch resolves
DocFetchOk(r) ==
  /\ ev[r].pc = "dfetch"
  /\ Respond(r, FetchBody(r, ev[r].url), "done")
  /\ UNCHANGED <<mapVars, cacheOrder, current, wstate, skipFlag, instPc, keysAtStart,
                 actPc, toDelete, purged, claimPc>>

\* a document branch that asks the network a second time before it falls back
DocFetchRetry(r) ==
  /\ ev[r].pc = "dfetch"
  /\ ev' = IF ev[r].net < 2
             THEN [ev EXCEPT ![r].net = @ + 1]
             ELSE [ev EXCEPT ![r].pc = "dmatch", ![r].neterr = TRUE]
  /\ UNCHANGED <<mapVars, cacheOrder, current, wstate, skipFlag, instPc, keysAtStart,
                 actPc, toDelete, purged, claimPc, controlled>>

\* document branch: fetch rejects; the catch calls caches.match(e.request)
DocFetchFail(r) ==
  /\ ev[r].pc = "dfetch"
  /\ ev' = [ev EXCEPT ![r].pc = "dmatch", ![r].neterr = TRUE]
  /\ UNCHANGED <<mapVars, cacheOrder, current, wstate, skipFlag, instPc, keysAtStart,
                 actPc, toDelete, purged, claimPc, controlled>>

\* document branch: caches.match(e.request) resolves
DocMatch(r) ==
  /\ ev[r].pc = "dmatch"
  /\ LET v == DocFallback(CachesMatch(ev[r].url), RootLookup) IN
       IF v = RootLookup
         THEN /\ ev' = [ev EXCEPT ![r].pc = "droot"]
              /\ UNCHANGED controlled
         ELSE Respond(r, AsResponse(v), "done")
  /\ UNCHANGED <<mapVars, cacheOrder, current, wstate, skipFlag, instPc, keysAtStart,
                 actPc, toDelete, purged, claimPc>>

\* document branch: caches.match('/') resolves
DocRoot(r) ==
  /\ ev[r].pc = "droot"
  /\ Respond(r, AsResponse(CachesMatch(ROOT)), "done")
  /\ UNCHANGED <<mapVars, cacheOrder, current, wstate, skipFlag, instPc, keysAtStart,
                 actPc, toDelete, purged, claimPc>>

\* asset branch: caches.match(e.request) resolves
AssetMatch(r) ==
  /\ ev[r].pc = "amatch"
  /\ LET v == AssetFirst(CachesMatch(ev[r].url), NetFetch) IN
       IF v = NetFetch
         THEN /\ ev' = [ev EXCEPT ![r].pc = "afetch", ![r].net = @ + 1]
              /\ UNCHANGED controlled
         ELSE Respond(r, AsResponse(v), "done")
  /\ UNCHANGED <<mapVars, cacheOrder, current, wstate, skipFlag, instPc, keysAtStart,
                 actPc, toDelete, purged, claimPc>>

\* an asset branch that stores what it fetched
AssetFetchOkStored(r) ==
  /\ ev[r].pc = "afetch"
  /\ Respond(r, FetchBody(r, ev[r].url), "done")
  /\ current' = IF Exists(CACHE_NAME)
                  THEN Put(current, ev[r].url, FetchBody(r, ev[r].url))
                  ELSE current
  /\ UNCHANGED <<mapVars, cacheOrder, wstate, skipFlag, instPc, keysAtStart,
                 actPc, toDelete, purged, claimPc>>

\* asset branch: fetch resolves; the result is returned and not stored
AssetFetchOk(r) ==
  /\ ev[r].pc = "afetch"
  /\ Respond(r, FetchBody(r, ev[r].url), "done")
  /\ UNCHANGED <<mapVars, cacheOrder, current, wstate, skipFlag, instPc, keysAtStart,
                 actPc, toDelete, purged, claimPc>>

\* asset branch: fetch rejects; nothing catches it
AssetFetchFail(r) ==
  /\ ev[r].pc = "afetch"
  /\ ev' = [ev EXCEPT ![r].resp = Failure, ![r].neterr = TRUE, ![r].pc = "done"]
  /\ UNCHANGED <<mapVars, cacheOrder, current, wstate, skipFlag, instPc, keysAtStart,
                 actPc, toDelete, purged, claimPc, controlled>>

\* ---------------------------------------------------------- specification
Next ==
  \/ \E w \in Workers : InstallListener(w)
  \/ \E w \in Workers : InstallOpen(w)
  \/ \E w \in Workers : InstallAddAllOk(w)
  \/ \E w \in Workers : InstallAddAllFail(w)
  \/ \E w \in Workers : ActivateListener(w)
  \/ \E w \in Workers : ActivateKeys(w)
  \/ \E w \in Workers, k \in AllNames : ActivateDelete(w, k)
  \/ \E w \in Workers : ActivateSettle(w)
  \/ \E w \in Workers : Activated(w)
  \/ \E w \in Workers : Claim(w)
  \/ \E r \in Events, q \in Requests : FetchListener(r, q[1], q[2])
  \/ \E r \in Events : TileMatch(r)
  \/ \E r \in Events : TileFetchOk(r)
  \/ \E r \in Events : TileFetchFail(r)
  \/ \E r \in Events : TileOpen(r)
  \/ \E r \in Events : TilePut(r)
  \/ StopIdleWorker
  \/ \E r \in Events : DocFetchOk(r)
  \/ \E r \in Events : DocFetchFail(r)
  \/ \E r \in Events : DocMatch(r)
  \/ \E r \in Events : DocRoot(r)
  \/ \E r \in Events : AssetMatch(r)
  \/ \E r \in Events : AssetFetchOk(r)
  \/ \E r \in Events : AssetFetchFail(r)

Spec == Init /\ [][Next]_vars

\* Every step but the arrival of a new version and of a new request: the host
\* runs a promise callback that is ready, dispatches the activate event once
\* Try Activate allows it, and the network answers or fails every request.
Progress ==
  \/ \E w \in Workers : InstallOpen(w)
  \/ \E w \in Workers : InstallAddAllOk(w)
  \/ \E w \in Workers : InstallAddAllFail(w)
  \/ \E w \in Workers : ActivateListener(w)
  \/ \E w \in Workers : ActivateKeys(w)
  \/ \E w \in Workers, k \in AllNames : ActivateDelete(w, k)
  \/ \E w \in Workers : ActivateSettle(w)
  \/ \E w \in Workers : Activated(w)
  \/ \E w \in Workers : Claim(w)
  \/ \E r \in Events : TileMatch(r)
  \/ \E r \in Events : TileFetchOk(r)
  \/ \E r \in Events : TileFetchFail(r)
  \/ \E r \in Events : TileOpen(r)
  \/ \E r \in Events : TilePut(r)
  \/ StopIdleWorker
  \/ \E r \in Events : DocFetchOk(r)
  \/ \E r \in Events : DocFetchFail(r)
  \/ \E r \in Events : DocMatch(r)
  \/ \E r \in Events : DocRoot(r)
  \/ \E r \in Events : AssetMatch(r)
  \/ \E r \in Events : AssetFetchOk(r)
  \/ \E r \in Events : AssetFetchFail(r)

\* the worker under a host that does not stop while a step is possible
SpecLive == Init /\ [][Next]_vars /\ WF_vars(Progress)

\* The cache storage belongs to the host, which may remove a cache at any
\* time (the user clears the site's stored data); the worker stays registered.
HostDeletesCache(k) ==
  /\ Exists(k)
  /\ \E w \in Workers : wstate[w] = "activated"
  /\ cacheOrder' = Without(cacheOrder, k)
  /\ current' = IF k = CACHE_NAME THEN EmptyCache ELSE current
  /\ UNCHANGED <<mapVars, wstate, skipFlag, instPc, keysAtStart, actPc, toDelete,
                 purged, claimPc, controlled, ev>>

NextHost == Next \/ \E k \in AllNames : HostDeletesCache(k)

SpecHost == Init /\ [][NextHost]_vars

\* ------------------------------------------------------------ map helpers
\* a getColor whose breakpoints belong to the lower band
getColorInclusive(mins) ==
  IF mins <= Minutes(30, 0) THEN GREEN
  ELSE IF mins <= Minutes(60, 0) THEN AMBER
  ELSE RED

\* getColor(mins)
getColor(mins) ==
  IF mins < Minutes(30, 0) THEN GREEN
  ELSE IF mins < Minutes(60, 0) THEN AMBER
  ELSE RED

\* L.circleMarker([lat, lng], options): a marker that is on no map yet.
\* Opacities are in hundredths.
CircleMarker(latlng, options) ==
  [latlng |-> latlng, options |-> options, popup |-> ""]

\* the options createStationMarker passes
StationOptions(mins) ==
  [radius |-> 7, fillColor |-> getColor(mins), color |-> WHITE,
   weight |-> 2, opacity |-> 100, fillOpacity |-> 85]

\* the options createTerminalMarker passes
TerminalOptions ==
  [radius |-> 12, fillColor |-> PURPLE, color |-> WHITE,
   weight |-> 3, opacity |-> 100, fillOpacity |-> 90]

\* marker.bindPopup(popupHtml)
BindPopup(marker, popupHtml) == [marker EXCEPT !.popup = popupHtml]

\* an addTo that takes the other markers off the map
AddToCleared(onMap, marker) == <<marker>>

\* marker.addTo(map): the marker is one more layer of the map
AddTo(onMap, marker) == Append(onMap, marker)

\* the handle of the marker that is the n-th layer of the map
MarkerHandle(n) == [kind |-> "marker", id |-> n, color |-> ""]

\* the page starts with no map and no call made
InitPage == Init /\ cacheOrder = <<>>

\* a page calls getColor(mins)
CallGetColor(mins) ==
  /\ call' = [NoCall EXCEPT !.fn = "getColor", !.mins = mins]
  /\ returned' = [NoReturn EXCEPT !.kind = "color", !.color = getColor(mins)]
  /\ UNCHANGED <<swVars, mapView, layers>>

\* initMap(lat, lng, zoom): the page's one map container gets its map, with
\* the view set and the base tile layer added
initMap(latlng, zoom) ==
  /\ ~mapView.made
  /\ mapView' = [made |-> TRUE, center |-> latlng, zoom |-> zoom, tiles |-> TRUE]
  /\ call' = [NoCall EXCEPT !.fn = "initMap", !.latlng = latlng, !.zoom = zoom]
  /\ returned' = [NoReturn EXCEPT !.kind = "map"]
  /\ UNCHANGED <<swVars, layers>>

\* createStationMarker(map, lat, lng, mins, popupHtml)
createStationMarker(latlng, mins, popupHtml) ==
  /\ mapView.made
  /\ Len(layers) < MaxMarkers
  /\ layers' = AddTo(layers,
                     BindPopup(CircleMarker(latlng, StationOptions(mins)), popupHtml))
  /\ call' = [NoCall EXCEPT !.fn = "createStationMarker", !.latlng = latlng,
                            !.mins = mins, !.popup = popupHtml]
  /\ returned' = MarkerHandle(Len(layers'))
  /\ UNCHANGED <<swVars, mapView>>

\* createTerminalMarker(map, lat, lng, popupHtml)
createTerminalMarker(latlng, popupHtml) ==
  /\ mapView.made
  /\ Len(layers) < MaxMarkers
  /\ layers' = AddTo(layers,
                     BindPopup(CircleMarker(latlng, TerminalOptions), popupHtml))
  /\ call' = [NoCall EXCEPT !.fn = "createTerminalMarker", !.latlng = latlng,
                            !.popup = popupHtml]
  /\ returned' = MarkerHandle(Len(layers'))
  /\ UNCHANGED <<swVars, mapView>>

NextColor == \E m \in Mins : CallGetColor(m)

SpecColor == InitPage /\ [][NextColor]_vars

NextMap ==
  \/ \E c \in Coords, z \in Zooms : initMap(c, z)
  \/ \E c \in Coords, m \in StationMins, p \in Popups : createStationMarker(c, m, p)
  \/ \E c \in Coords, p \in Popups : createTerminalMarker(c, p)

SpecMap == InitPage /\ [][NextMap]_vars

\* ----------------------------------------------------------------- claims
\* the step in which the install listener's work completes with success
InstallCompletes(w) == instPc[w] = "addAll" /\ instPc'[w] = "done"

\* C1 as stated: when the install listener's work has completed, the
\* CACHE_NAME cache holds exactly the 6 precache URLs, whatever it held before.
C1_InstallLeavesExactlyPrecache ==
  [][\A w \in Workers :
       InstallCompletes(w) => Keys(CACHE_NAME)' = PRECACHE]_vars

\* C1 as amended: when the install listener's work has completed with success,
\* the CACHE_NAME cache holds the 6 precache URLs together with every key it
\* held before, the entries of those other keys unchanged; so it holds exactly
\* the 6 when it held no other key, and an install over a cache that holds the
\* 6 already leaves the key set as it was.
C1_InstallAddsPrecache ==
  /\ [](\A w \in Workers :
          instPc[w] = "done" =>
            /\ Exists(CACHE_NAME)
            /\ \A u \in PRECACHE \cup keysAtStart[w] : current[u] # None)
  /\ [][\A w \in Workers :
          InstallCompletes(w) =>
            /\ Keys(CACHE_NAME)' = Keys(CACHE_NAME) \cup PRECACHE
            /\ Cardinality(Keys(CACHE_NAME)' \ Keys(CACHE_NAME)) <= 6
            /\ Keys(CACHE_NAME) = {} => Keys(CACHE_NAME)' = PRECACHE
            /\ PRECACHE \subseteq Keys(CACHE_NAME) =>
                 Keys(CACHE_NAME)' = Keys(CACHE_NAME)
            /\ \A u \in Urls \ PRECACHE :
                 current'[u] = current[u]]_vars

\* C1 witness: a second install has completed over a cache that held a tile
\* besides the 6 precache URLs.
C1_Witness ==
  \E w \in Workers :
    /\ w > 1
    /\ instPc[w] = "done"
    /\ keysAtStart[w] = PRECACHE \cup {TileUrl}
    /\ Keys(CACHE_NAME) = PRECACHE \cup {TileUrl}

\* C2: once the activate listener's work has completed, CACHE_NAME is the only
\* cache that exists: every cache of another name that existed is deleted, and
\* the current one is not.
C2_OnlyCurrentCacheRemains ==
  \A w \in Workers :
    actPc[w] = "done" =>
      /\ Range(cacheOrder) = {CACHE_NAME}
      /\ cacheOrder = <<CACHE_NAME>>
      /\ \A k \in AllNames \ {CACHE_NAME} : Keys(k) = {}
      /\ PRECACHE \subseteq Keys(CACHE_NAME)

\* C2 witness: activate has completed after deleting two older caches.
C2_Witness ==
  \E w \in Workers :
    /\ actPc[w] = "done"
    /\ purged[w] = Range(OtherNames)
    /\ Range(cacheOrder) = {CACHE_NAME}

\* the requests of an event, by what the claims call them
Started(r) == ev[r].pc # "none"
Answered(r) == ev[r].pc \in {"done", "topen", "tput", "dropped"}
OnTileHost(r) == Started(r) /\ ev[r].url = TileUrl
IsDocRequest(r) == Started(r) /\ ev[r].url # TileUrl /\ ev[r].dest = "document"
IsAssetRequest(r) == Started(r) /\ ev[r].url # TileUrl /\ ev[r].dest # "document"

\* a response that came out of a cache: an entry stored for url by install, by
\* an earlier version, or by another event's network fetch
FromCache(r, body, url) ==
  /\ body[3] = url
  /\ body[1] \in {"install", "old", "fetch"}
  /\ body # FetchBody(r, url)

CachesUnchanged == current' = current /\ cacheOrder' = cacheOrder

\* C3: a tile-host request for which a cached entry exists when its fetch
\* event arrives is answered with the cached body (the entry found by the
\* listener's lookup), and no network request is issued for it.
C3_CachedTileServedWithoutNetwork ==
  /\ [](\A r \in Events :
          OnTileHost(r) /\ ev[r].hadEntry =>
            /\ ev[r].pc \in {"tmatch", "done"}
            /\ ev[r].net = 0
            /\ ~ev[r].neterr
            /\ ev[r].pc = "tmatch" => CachesMatch(ev[r].url) # None
            /\ ev[r].pc = "done" => FromCache(r, ev[r].resp, ev[r].url))
  /\ [][\A r \in Events :
          OnTileHost(r) /\ ev[r].pc = "tmatch" /\ CachesMatch(ev[r].url) # None
            /\ ev'[r] # ev[r]
          => /\ ev'[r].resp = CachesMatch(ev[r].url)
             /\ ev'[r].pc = "done"
             /\ ev'[r].net = 0]_vars

\* C3 witness: a tile request that found a cached entry has been answered.
C3_Witness ==
  \E r \in Events :
    /\ OnTileHost(r) /\ ev[r].dest = "image"
    /\ ev[r].hadEntry /\ ev[r].pc = "done" /\ ev[r].net = 0
    /\ ev[r].resp = current[TileUrl]

\* C4: a document request off the tile host whose network fetch fails while a
\* cached entry of its exact URL exists is answered with that entry, also when
\* the root page is cached too.
C4_FailedDocumentServedExactEntry ==
  /\ [](\A r \in Events :
          IsDocRequest(r) /\ ev[r].neterr /\ ev[r].hadEntry =>
            /\ ev[r].pc \in {"dmatch", "done"}
            /\ ev[r].pc = "dmatch" => CachesMatch(ev[r].url) # None
            /\ ev[r].pc = "done" => FromCache(r, ev[r].resp, ev[r].url))
  /\ [][\A r \in Events :
          IsDocRequest(r) /\ ev[r].pc = "dmatch" /\ CachesMatch(ev[r].url) # None
            /\ ev'[r] # ev[r]
          => /\ ev'[r].resp = CachesMatch(ev[r].url)
             /\ ev'[r].pc = "done"]_vars

\* C4 witness: the network failed for a precached file opened as a page, the
\* root page was cached too, and the file's own entry was returned.
C4_Witness ==
  \E r \in Events :
    /\ IsDocRequest(r) /\ ev[r].url = "/manifest.json"
    /\ ev[r].neterr /\ ev[r].pc = "done"
    /\ CachesMatch(ROOT) # None
    /\ ev[r].resp = InstallBody("/manifest.json")

\* C5: a document request off the tile host whose network fetch fails while
\* no cached entry of its URL exists but the root page is cached is answered
\* with the cached root page.
C5_FailedDocumentServedRootPage ==
  /\ [](\A r \in Events :
          IsDocRequest(r) /\ ev[r].neterr /\ ev[r].pc = "done"
            /\ ~ev[r].hadEntry /\ CachesMatch(ev[r].url) = None
            /\ CachesMatch(ROOT) # None
          => /\ ev[r].url # ROOT
             /\ FromCache(r, ev[r].resp, ROOT))
  /\ [][\A r \in Events :
          IsDocRequest(r) /\ ev[r].pc = "droot" /\ CachesMatch(ROOT) # None
            /\ ev'[r] # ev[r]
          => /\ ev'[r].resp = CachesMatch(ROOT)
             /\ ev'[r].pc = "done"]_vars

\* C5 witness: the network failed for a page that is not cached and the
\* cached root page was returned.
C5_Witness ==
  \E r \in Events :
    /\ IsDocRequest(r) /\ ev[r].url = "/journeys.html"
    /\ ev[r].neterr /\ ~ev[r].hadEntry /\ ev[r].pc = "done"
    /\ ev[r].resp = InstallBody(ROOT)

\* C6: a tile-host request with no cached entry whose network fetch succeeds
\* is answered with the network response, and a copy is stored in the
\* CACHE_NAME cache under the request: once the listener's outstanding work
\* has finished the cache holds an entry for the tile (a network response for
\* that tile), so the lookup of a later request for it finds one.
C6_FetchedTileIsReturnedAndStored ==
  \A r \in Events :
    OnTileHost(r) /\ ev[r].net > 0 /\ ~ev[r].neterr /\ Answered(r) =>
      /\ ev[r].net = 1
      /\ ev[r].resp = FetchBody(r, ev[r].url)
      /\ ev[r].pc = "done" =>
           /\ Exists(CACHE_NAME)
           /\ \E q \in Events : current[ev[r].url] = FetchBody(q, ev[r].url)
           /\ CachesMatch(ev[r].url) # None

\* C6 witness: a tile that was not cached has been fetched, returned and
\* stored.
C6_Witness ==
  \E r \in Events :
    /\ OnTileHost(r) /\ ~ev[r].hadEntry /\ ev[r].pc = "done"
    /\ ev[r].resp = FetchBody(r, TileUrl)
    /\ current[TileUrl] = FetchBody(r, TileUrl)

\* C7: the open pages are claimed only after every cache of another name is
\* deleted: in no state has a worker claimed the pages while a cache other
\* than CACHE_NAME exists.
C7_ClaimedOnlyAfterPurge ==
  \A w \in Workers :
    claimPc[w] = "claimed" => Range(cacheOrder) \subseteq {CACHE_NAME}

\* C8: handling a request that is neither on the tile host nor a document
\* modifies no cache: a hit is returned without a network call, a miss is
\* answered by the network and its result is not stored.
C8_AssetRequestLeavesCachesAlone ==
  /\ [](\A r \in Events :
          IsAssetRequest(r) =>
            /\ ev[r].pc \in {"amatch", "afetch", "done"}
            /\ ev[r].hadEntry => ev[r].net = 0
            /\ ev[r].hadEntry /\ ev[r].pc = "done" =>
                 FromCache(r, ev[r].resp, ev[r].url)
            /\ ~ev[r].hadEntry /\ ev[r].pc = "done" /\ ~ev[r].neterr =>
                 ev[r].resp = FetchBody(r, ev[r].url) /\ ev[r].net = 1
            /\ \A k \in AllNames : Entries(k)[ev[r].url] # FetchBody(r, ev[r].url))
  /\ [][\A r \in Events :
          ev'[r] # ev[r] /\ ev'[r].url # TileUrl /\ ev'[r].dest # "document"
          => CachesUnchanged]_vars

\* C8 witness: one such request was answered from the cache and another by
\* the network, and the cache holds no entry for the latter.
C8_Witness ==
  \E r, q \in Events :
    /\ IsAssetRequest(r) /\ ev[r].hadEntry /\ ev[r].pc = "done"
    /\ ev[r].resp = InstallBody(ev[r].url) /\ ev[r].net = 0
    /\ IsAssetRequest(q) /\ ~ev[q].hadEntry /\ ev[q].pc = "done"
    /\ ev[q].resp = FetchBody(q, ev[q].url)
    /\ CachesMatch(ev[q].url) = None

\* C9: a document request whose network fetch fails while neither an entry of
\* its URL nor the root page is cached ends in a failure delivered to the
\* page: the lookup of the root page is the listener's last step and it
\* answers with a network error, not with a response of its own making, and
\* no step of the event modifies a cache.
C9_FailedDocumentWithoutFallbackFails ==
  /\ [](\A r \in Events :
          IsDocRequest(r) =>
            /\ ev[r].pc \in {"dfetch", "dmatch", "droot", "done"}
            /\ ev[r].net = 1
            /\ ev[r].pc = "done" /\ ev[r].neterr =>
                 \/ ev[r].resp = Failure
                 \/ FromCache(r, ev[r].resp, ev[r].url)
                 \/ FromCache(r, ev[r].resp, ROOT))
  /\ [][\A r \in Events :
          IsDocRequest(r) /\ ev'[r] # ev[r] =>
            /\ CachesUnchanged
            /\ ev[r].pc = "dmatch" /\ CachesMatch(ev[r].url) = None =>
                 ev'[r].pc = "droot" /\ ev'[r].resp = None
            /\ ev[r].pc = "droot" /\ CachesMatch(ROOT) = None =>
                 ev'[r].pc = "done" /\ ev'[r].resp = Failure]_vars

\* C9 witness: the network failed for a document, nothing was cached for it,
\* not the root page either, and the page got the failure.
C9_Witness ==
  \E r \in Events :
    /\ IsDocRequest(r) /\ ev[r].neterr /\ ev[r].pc = "done"
    /\ ev[r].resp = Failure
    /\ CachesMatch(ev[r].url) = None /\ CachesMatch(ROOT) = None

\* C10: a tile-host or other-asset request with no cached entry whose network
\* fetch fails ends in a failure delivered to the page, with no fallback, and
\* no entry is written to any cache for it.
C10_FailedTileOrAssetFails ==
  /\ [](\A r \in Events :
          (OnTileHost(r) \/ IsAssetRequest(r)) /\ ev[r].neterr =>
            /\ ev[r].pc = "done"
            /\ ev[r].resp = Failure
            /\ ev[r].net = 1
            /\ \A k \in AllNames : Entries(k)[ev[r].url] # FetchBody(r, ev[r].url))
  /\ [][\A r \in Events :
          (OnTileHost(r) \/ IsAssetRequest(r)) /\ ev[r].pc \in {"tfetch", "afetch"}
            /\ ev'[r].neterr
          => CachesUnchanged /\ ev'[r].pc = "done" /\ ev'[r].resp = Failure]_vars

\* C10 witness: a tile and another file were not cached, the network failed
\* for both, both pages got the failure and neither URL is in a cache.
C10_Witness ==
  \E r, q \in Events :
    /\ OnTileHost(r) /\ ev[r].neterr /\ ev[r].resp = Failure
    /\ IsAssetRequest(q) /\ ev[q].neterr /\ ev[q].resp = Failure
    /\ CachesMatch(ev[r].url) = None /\ CachesMatch(ev[q].url) = None

\* C11: getColor(m) is green for every m with 0 <= m < 30, amber for every m
\* with 30 <= m < 60 and red for every m >= 60; so 29 and 29.999 are green, 30
\* and 59 and 59.999 amber, 60 red.  The result is settled by m alone: the call
\* reads and changes nothing of the page or the worker.
C11_GetColorBands ==
  /\ [](call.fn = "getColor" =>
          /\ returned.kind = "color"
          /\ 0 <= call.mins /\ call.mins < Minutes(30, 0) => returned.color = GREEN
          /\ Minutes(30, 0) <= call.mins /\ call.mins < Minutes(60, 0) =>
               returned.color = AMBER
          /\ call.mins >= Minutes(60, 0) => returned.color = RED
          /\ call.mins \in {Minutes(29, 0), Minutes(29, 999)} => returned.color = GREEN
          /\ call.mins \in {Minutes(30, 0), Minutes(59, 0), Minutes(59, 999)} =>
               returned.color = AMBER
          /\ call.mins = Minutes(60, 0) => returned.color = RED
          /\ \A m \in Mins : call.mins = m => returned.color = getColor(m))
  /\ [][call'.fn = "getColor" => UNCHANGED <<swVars, mapView, layers>>]_vars

\* C11 witness: getColor was called with exactly 30 minutes and answered amber.
C11_Witness ==
  /\ call.fn = "getColor"
  /\ call.mins = Minutes(30, 0)
  /\ returned.color = AMBER

\* the last call was one of the two marker helpers
MarkerCall == call.fn \in {"createStationMarker", "createTerminalMarker"}

\* C12: each call of createStationMarker or createTerminalMarker adds exactly
\* one marker to the map, at the given coordinates and with the caller's
\* popup, and returns that marker, while the markers already on the map stay
\* as they were.  A station marker is filled with getColor(minutes), a
\* terminal marker with the fixed '#7c3aed', whatever was drawn before.
C12_OneMarkerPerCall ==
  /\ [](MarkerCall =>
          /\ returned = MarkerHandle(Len(layers))
          /\ Len(layers) >= 1
          /\ layers[returned.id].latlng = call.latlng
          /\ layers[returned.id].popup = call.popup
          /\ call.fn = "createStationMarker" =>
               /\ layers[returned.id].options.fillColor = getColor(call.mins)
               /\ call.mins < Minutes(30, 0) =>
                    layers[returned.id].options.fillColor = GREEN
               /\ Minutes(30, 0) <= call.mins /\ call.mins < Minutes(60, 0) =>
                    layers[returned.id].options.fillColor = AMBER
               /\ call.mins >= Minutes(60, 0) =>
                    layers[returned.id].options.fillColor = RED
          /\ call.fn = "createTerminalMarker" =>
               layers[returned.id].options.fillColor = PURPLE)
  /\ [][MarkerCall' =>
          /\ Len(layers') = Len(layers) + 1
          /\ SubSeq(layers', 1, Len(layers)) = layers
          /\ returned'.id = Len(layers')
          /\ mapView' = mapView]_vars

\* C12 witness: a station 30 minutes away was drawn, then a terminal at the
\* other coordinates; the terminal marker is the one returned and the station
\* marker is still the first layer, amber.
C12_Witness ==
  /\ call.fn = "createTerminalMarker"
  /\ Len(layers) = 2
  /\ returned = MarkerHandle(2)
  /\ layers[1].options.fillColor = AMBER
  /\ layers[1].options.radius = 7
  /\ layers[2].options.fillColor = PURPLE
  /\ layers[2].latlng = call.latlng
  /\ layers[1].latlng # layers[2].latlng
  /\ layers[2].popup = call.popup

\* the positions of an event at which a network request of its is in flight
OnNetwork(r) == ev[r].pc \in {"tfetch", "dfetch", "afetch"}

\* C13: every intercepted fetch event causes at most one network request,
\* whichever branch handles it: after a failed attempt no further request is
\* made, and an event of the tile or asset branch that is answered from the
\* cache has made none.
C13_AtMostOneNetworkRequest ==
  /\ [](\A r \in Events :
          /\ ev[r].net \in {0, 1}
          /\ OnNetwork(r) => ev[r].net = 1 /\ ~ev[r].neterr
          /\ ev[r].neterr => ev[r].net = 1
          /\ Started(r) /\ ev[r].dest # "document" /\ ev[r].hadEntry => ev[r].net = 0
          /\ Started(r) /\ Branch(ev[r].url, ev[r].dest) # "document"
               /\ ev[r].pc = "done" /\ FromCache(r, ev[r].resp, ev[r].url)
             => ev[r].net = 0)
  /\ [][\A r \in Events :
          /\ ev'[r].net # ev[r].net => ev[r].net = 0 /\ ev'[r].net = 1
          /\ ev[r].neterr => ev'[r].net = ev[r].net /\ ~OnNetwork(r)']_vars

\* C13 witness: the only network attempt of a document request failed and a
\* fallback answered it; a precached file was served without any request.
C13_Witness ==
  \E r, q \in Events :
    /\ IsDocRequest(r) /\ ev[r].neterr /\ ev[r].pc = "done" /\ ev[r].net = 1
    /\ ev[r].resp # Failure
    /\ IsAssetRequest(q) /\ ev[q].hadEntry /\ ev[q].pc = "done" /\ ev[q].net = 0

\* C14: whenever a worker is active (activating or activated) or a fetch event
\* is being handled, the CACHE_NAME cache exists and holds an entry for the
\* root page and for every other precache URL.  A worker is active only after
\* its precache of all 6 URLs has completed, and no step of the install,
\* activate or fetch listener removes an entry of the current cache or deletes
\* that cache.
C14_PrecacheStaysWhileActive ==
  /\ [](/\ \A w \in Workers : Active(w) => instPc[w] = "done"
        /\ (\E w \in Workers : Active(w)) \/ (\E r \in Events : Started(r)) =>
             /\ Exists(CACHE_NAME)
             /\ \A u \in PRECACHE : current[u] # None
             /\ current[ROOT] # None
             /\ CachesMatch(ROOT) # None)
  /\ [][/\ cacheOrder' # cacheOrder =>
             (Exists(CACHE_NAME) => Exists(CACHE_NAME)')
        /\ current' # current =>
             \A u \in Urls : current[u] # None => current'[u] # None]_vars

\* C14 witness: a second worker has replaced the first and is activated, and
\* a document request whose network fetch failed is about to read the root
\* page from the cache.
C14_Witness ==
  \E w \in Workers, r \in Events :
    /\ w > 1
    /\ wstate[w] = "activated"
    /\ ev[r].pc = "droot"
    /\ current[ROOT] = InstallBody(ROOT)
    /\ Keys(CACHE_NAME) = PRECACHE

\* C15 as stated: a worker whose precache has succeeded eventually becomes
\* active.
C15_InstalledBecomesActive ==
  \A w \in Workers : (wstate[w] = "installed") ~> Active(w)

\* C15 as amended: the skip-waiting flag is set in the install listener's
\* synchronous part, so it is set for as long as the precache is under way and
\* afterwards; a worker whose precache has succeeded, or a newer worker that
\* replaced it while it waited, eventually becomes active although the open
\* pages are controlled by an earlier worker; a worker whose precache has
\* failed is redundant and never active.
C15_SkipWaitingActivates ==
  /\ [](\A w \in Workers :
          /\ instPc[w] \in {"open", "addAll"} =>
               wstate[w] = "installing" /\ skipFlag[w]
          /\ wstate[w] = "installed" => skipFlag[w]
          /\ instPc[w] = "failed" => wstate[w] = "redundant"
          /\ Active(w) => instPc[w] = "done")
  /\ \A w \in Workers :
       (wstate[w] = "installed") ~> (\E v \in Workers : v >= w /\ Active(v))
  /\ \A w \in Workers :
       (wstate[w] = "installed" /\ controlled
          /\ \A v \in Workers : v > w => wstate[v] = "parsed")
         ~> (Active(w) \/ \E v \in Workers : v > w /\ wstate[v] # "parsed")

\* C15 witness: a second worker is activating, before its own claim, while
\* the open pages are controlled through the worker it replaced.
C15_Witness ==
  \E w \in Workers :
    /\ w > 1
    /\ wstate[w] = "activating"
    /\ claimPc[w] = "pending"
    /\ instPc[w] = "done"
    /\ controlled

\* C16: a document request off the tile host whose network fetch completes is
\* answered with that network response, also when a cached entry of the same
\* URL exists; its cache lookups happen only after the network has failed;
\* and no cache ever holds a response fetched for a document request.
C16_DocumentNetworkFirst ==
  \A r \in Events :
    IsDocRequest(r) =>
      /\ ev[r].pc = "done" /\ ~ev[r].neterr =>
           /\ ev[r].resp = FetchBody(r, ev[r].url)
           /\ ~FromCache(r, ev[r].resp, ev[r].url)
      /\ ev[r].pc \in {"dmatch", "droot"} => ev[r].neterr
      /\ ev[r].pc = "done" /\ ev[r].resp # FetchBody(r, ev[r].url) => ev[r].neterr
      /\ current[ev[r].url] # FetchBody(r, ev[r].url)
      /\ current[ev[r].url] \in {None, InstallBody(ev[r].url)}

\* C16 witness: a precached file was requested as a document, the network
\* answered, and the page got the network response while the cache still
\* holds the precached one.
C16_Witness ==
  \E r \in Events :
    /\ IsDocRequest(r) /\ ev[r].url = "/manifest.json"
    /\ ev[r].hadEntry /\ ~ev[r].neterr /\ ev[r].pc = "done"
    /\ ev[r].resp = FetchBody(r, "/manifest.json")
    /\ CachesMatch("/manifest.json") = InstallBody("/manifest.json")

\* the positions of each branch of the fetch listener
TilePcs == {"tmatch", "tfetch", "topen", "tput", "dropped"}
DocPcs == {"dfetch", "dmatch", "droot"}
AssetPcs == {"amatch", "afetch"}

\* C17: every intercepted request is handled by exactly one of the three
\* branches, the one its host and destination select with the tile-host test
\* first, and it is answered once: a response that is out is never replaced.
\* A tile-host request with destination 'document' goes through the tile
\* branch: its first step is the cache lookup, and a cached entry answers it
\* without a network request.
C17_OneBranchOneResponse ==
  /\ [](\A r \in Events :
          Started(r) =>
            /\ IsTileHost(ev[r].url) => ev[r].pc \in TilePcs \cup {"done"}
            /\ ~IsTileHost(ev[r].url) /\ ev[r].dest = "document" =>
                 ev[r].pc \in DocPcs \cup {"done"}
            /\ ~IsTileHost(ev[r].url) /\ ev[r].dest # "document" =>
                 ev[r].pc \in AssetPcs \cup {"done"}
            /\ ev[r].pc = "done" => ev[r].resp # None
            /\ ev[r].pc \in {"tmatch", "tfetch", "dfetch", "dmatch", "droot",
                             "amatch", "afetch"} => ev[r].resp = None
            /\ IsTileHost(ev[r].url) /\ ev[r].dest = "document" /\ ev[r].hadEntry =>
                 /\ ev[r].net = 0
                 /\ ev[r].pc = "done" => FromCache(r, ev[r].resp, ev[r].url))
  /\ [][\A r \in Events :
          /\ ev[r].resp # None => ev'[r].resp = ev[r].resp
          /\ Started(r) => ev'[r].url = ev[r].url /\ ev'[r].dest = ev[r].dest
          /\ ~Started(r) /\ IsTileHost(ev'[r].url) =>
               ev'[r].pc \in {"none", "tmatch"} /\ ev'[r].net = 0]_vars

\* C17 witness: a tile fetched and stored for one request was then requested
\* with destination 'document', and that request was answered from the cache
\* without a network request.
C17_Witness ==
  \E r, q \in Events :
    /\ r # q
    /\ ev[r].url = TileUrl /\ ev[r].dest = "document"
    /\ ev[r].hadEntry /\ ev[r].pc = "done" /\ ev[r].net = 0
    /\ ev[r].resp = FetchBody(q, TileUrl)

\* two fetch events for the same tile, each of which arrived while no cache
\* held the tile (the second arrived before the first one's write), neither
\* of which met a network failure, and the only ones to fetch that tile
ConcurrentTilePair(r, q) ==
  /\ r # q
  /\ OnTileHost(r) /\ OnTileHost(q)
  /\ ev[r].url = ev[q].url
  /\ ~ev[r].hadEntry /\ ~ev[q].hadEntry
  /\ ~ev[r].neterr /\ ~ev[q].neterr
  /\ \A p \in Events \ {r, q} : ~(Started(p) /\ ev[p].url = ev[r].url)

\* C18 as stated: of two such events, each one that is answered got the
\* response of its own network fetch; and once both have finished the cache
\* holds one of the two network responses for the tile.
C18_EachGetsOwnResponse ==
  \A r, q \in Events :
    ConcurrentTilePair(r, q) =>
      /\ Answered(r) => ev[r].resp = FetchBody(r, ev[r].url)
      /\ ev[r].pc = "done" /\ ev[q].pc = "done" =>
           current[ev[r].url] \in {FetchBody(r, ev[r].url), FetchBody(q, ev[r].url)}

\* C18 as amended: of two such events, each one that is answered got a
\* network response for the tile: that of its own fetch when its lookup found
\* nothing, or, when its lookup ran after the other one's write, the stored
\* copy of the other one's response, without a fetch of its own.  Once both
\* have finished the CACHE_NAME cache holds an entry for the tile, which is
\* the response of one of the fetches made.
C18_ConcurrentTileFetches ==
  [](\A r, q \in Events :
        ConcurrentTilePair(r, q) =>
          /\ Answered(r) =>
               /\ ev[r].resp \in {FetchBody(r, ev[r].url), FetchBody(q, ev[r].url)}
               /\ ev[r].net = 1 => ev[r].resp = FetchBody(r, ev[r].url)
               /\ ev[r].net = 0 =>
                    /\ ev[r].resp = FetchBody(q, ev[r].url)
                    /\ ev[q].pc = "done" /\ ev[q].net = 1
                    /\ current[ev[r].url] = FetchBody(q, ev[r].url)
          /\ ev[r].pc = "done" /\ ev[q].pc = "done" =>
               /\ Exists(CACHE_NAME)
               /\ current[ev[r].url] # None
               /\ current[ev[r].url] \in
                    {FetchBody(p, ev[r].url) : p \in {x \in {r, q} : ev[x].net = 1}}
               /\ CachesMatch(ev[r].url) = current[ev[r].url])

\* C18 witness: both events missed the cache, each got its own response, and
\* the write of the event that arrived first landed last.
C18_Witness ==
  \E r, q \in Events :
    /\ ConcurrentTilePair(r, q) /\ r < q
    /\ ev[r].pc = "done" /\ ev[q].pc = "done"
    /\ ev[r].net = 1 /\ ev[q].net = 1
    /\ ev[r].resp = FetchBody(r, TileUrl) /\ ev[q].resp = FetchBody(q, TileUrl)
    /\ current[TileUrl] = FetchBody(r, TileUrl)

\* C19: in every reachable state each key of the CACHE_NAME cache is one of
\* the 6 precache URLs, holding what install stored, or the URL of a tile-host
\* request that missed the cache and was fetched from the network, holding
\* that response; no response fetched for a document or other-asset request
\* is in any cache.
C19_OnlyPrecacheAndFetchedTiles ==
  [](/\ current # EmptyCache => Exists(CACHE_NAME)
     /\ \A u \in Urls :
          current[u] # None =>
            \/ u \in PRECACHE /\ current[u] = InstallBody(u)
            \/ /\ u \notin PRECACHE
               /\ IsTileHost(u)
               /\ \E r \in Events :
                    /\ current[u] = FetchBody(r, u)
                    /\ OnTileHost(r) /\ ev[r].url = u
                    /\ ev[r].net = 1 /\ ~ev[r].neterr
                    /\ ev[r].pc = "done"
                    /\ ev[r].resp = FetchBody(r, u)
     /\ \A r \in Events :
          IsDocRequest(r) \/ IsAssetRequest(r) =>
            current[ev[r].url] # FetchBody(r, ev[r].url))

\* C19 witness: a tile and a file that is not precached were both fetched
\* from the network; the cache holds the 6 precache URLs and the tile, and
\* not the file.
C19_Witness ==
  \E r, q \in Events :
    /\ OnTileHost(r) /\ ev[r].pc = "done" /\ ev[r].net = 1
    /\ IsAssetRequest(q) /\ ev[q].pc = "done" /\ ev[q].resp = FetchBody(q, ev[q].url)
    /\ Keys(CACHE_NAME) = PRECACHE \cup {TileUrl}
    /\ current[ev[q].url] = None

====
